---- MODULE Spec2Model ----
(***************************************************************************)
(* WebsiteToPDF (src/index.ts): a same-domain crawl driven through a       *)
(* headless browser, followed by the rendering of the collected pages to   *)
(* one PDF.  The model follows main(): constructor, crawl(), generatePDF() *)
(* and the catch of main().                                                *)
(*                                                                         *)
(* A URL string is a sequence of one-character strings, so that the URL    *)
(* parser, toLowerCase and endsWith are computed on characters, as the     *)
(* code computes them.                                                     *)
(*                                                                         *)
(* One step of the model is the code between two points where the state    *)
(* of the object can be observed: an engine call of a phase, or one        *)
(* iteration of the crawl loop (single-threaded, so nothing interleaves).  *)
(* Every engine call either resolves or rejects.  The delays               *)
(* (delayBetweenRequests, the 2 s before page.pdf) change no state and     *)
(* are left out, as are the layout options of page.pdf.                    *)
(***************************************************************************)
EXTENDS Integers, Sequences, FiniteSets, TLC

(***************************************************************************)
(* Bounds of the model.                                                    *)
(***************************************************************************)
\* the largest numeric maxPages option a caller supplies (0..MaxPagesOpt)
MaxPagesOpt == 2
\* the largest number of engine failures injected in one run
MaxFailures == 1

(***************************************************************************)
(* Strings.                                                                *)
(*                                                                         *)
(* Where an operator reads an argument many times, the argument is bound   *)
(* once by a quantifier over a singleton set ("x \in {e}"), the way the     *)
(* code holds it in a const: the value is the same, and TLC evaluates the  *)
(* argument once instead of once per use.                                  *)
(***************************************************************************)
Range(s) == {s[i] : i \in 1..Len(s)}

UpperCase == <<"A","B","C","D","E","F","G","H","I","J","K","L","M",
               "N","O","P","Q","R","S","T","U","V","W","X","Y","Z">>
LowerCase == <<"a","b","c","d","e","f","g","h","i","j","k","l","m",
               "n","o","p","q","r","s","t","u","v","w","x","y","z">>

\* String.prototype.toLowerCase, character by character
toLowerCase(s) ==
    CHOOSE lower \in
        {[i \in 1..Len(str) |->
            IF \E k \in 1..Len(UpperCase) : UpperCase[k] = str[i]
            THEN LowerCase[CHOOSE k \in 1..Len(UpperCase) : UpperCase[k] = str[i]]
            ELSE str[i]] : str \in {s}} : TRUE

\* String.prototype.endsWith
endsWith(s, suffix) ==
    /\ Len(s) >= Len(suffix)
    /\ SubSeq(s, Len(s) - Len(suffix) + 1, Len(s)) = suffix

\* String.prototype.startsWith
startsWith(s, prefix) ==
    /\ Len(s) >= Len(prefix)
    /\ SubSeq(s, 1, Len(prefix)) = prefix

\* the index of the first character of s, from position `from`, that is in
\* `stops`; Len(s) + 1 when there is none
FirstOf(s, from, stops) ==
    IF \E i \in from..Len(s) : s[i] \in stops
    THEN CHOOSE i \in from..Len(s) :
            /\ s[i] \in stops
            /\ \A j \in from..(i - 1) : s[j] \notin stops
    ELSE Len(s) + 1

(***************************************************************************)
(* The WHATWG URL class of Node ('url'), for the http URLs of the model:   *)
(* scheme http or https, a host of letters and dots, an optional path, an  *)
(* optional ?query and an optional #fragment.                              *)
(***************************************************************************)
Scheme == <<"h","t","t","p",":","/","/">>
SchemeSecure == <<"h","t","t","p","s",":","/","/">>

\* the scheme and "//" that s starts with; <<>> when it starts with neither
SchemeOf(s) ==
    IF startsWith(s, SchemeSecure) THEN SchemeSecure
    ELSE IF startsWith(s, Scheme) THEN Scheme ELSE <<>>

\* a value no string equals: the parser's TypeError (Invalid URL)
Invalid == [invalid |-> TRUE]

\* new URL(s) without a base: the parsed record, or Invalid when it throws
ParseUrl(url) ==
    CHOOSE parsed \in {
      IF SchemeOf(s) = <<>> THEN Invalid
      ELSE
        LET h0 == Len(SchemeOf(s)) + 1
            h1 == FirstOf(s, h0, {"/", "?", "#"})
            p1 == FirstOf(s, h1, {"?", "#"})
            q1 == FirstOf(s, p1, {"#"})
            rawPath == SubSeq(s, h1, p1 - 1)
        IN  IF h1 = h0 THEN Invalid
            ELSE [protocol |-> SubSeq(s, 1, h0 - 3),
                  hostname |-> toLowerCase(SubSeq(s, h0, h1 - 1)),
                  pathname |-> IF rawPath = <<>> THEN <<"/">> ELSE rawPath,
                  search   |-> SubSeq(s, p1, q1 - 1),
                  hash     |-> SubSeq(s, q1, Len(s))] : s \in {url}} : TRUE

\* URL.prototype.toString: the serialised href
UrlToString(u) ==
    u.protocol \o <<"/","/">> \o u.hostname \o u.pathname \o u.search \o u.hash

\* new URL(href, base): an absolute href is parsed on its own, an empty href
\* is the base without its fragment; Invalid when the constructor throws
ResolveUrl(href, base) ==
    IF \/ startsWith(href, <<"h","t","t","p",":">>)
       \/ startsWith(href, <<"h","t","t","p","s",":">>)
    THEN ParseUrl(href)
    ELSE IF href = <<>> /\ ParseUrl(base) # Invalid
         THEN [ParseUrl(base) EXCEPT !.hash = <<>>]
         ELSE Invalid

(***************************************************************************)
(* The URLs of the model.                                                  *)
(***************************************************************************)
UrlRoot      == Scheme \o <<"a","/">>
UrlP         == Scheme \o <<"a","/","p">>
UrlQ         == Scheme \o <<"a","/","q">>
UrlPdf       == Scheme \o <<"a","/","x",".","p","d","f">>
UrlPdfUpper  == Scheme \o <<"a","/","x",".","P","D","F">>
UrlPdfQuery  == Scheme \o <<"a","/","x",".","p","d","f","?","v">>
UrlQueryPdf  == Scheme \o <<"a","/","p","?","x",".","p","d","f">>
UrlSub       == Scheme \o <<"w",".","a","/">>
UrlExternal  == Scheme \o <<"b","/">>
UrlUpperHost == Scheme \o <<"A">>
HrefEmpty    == <<>>
HrefBad      == Scheme

\* src/config.ts
config ==
    [urls |->
        << <<"h","t","t","p","s",":","/","/","d","o","c","s",".","f","a","t","z","e","b","r","a",".","c","o","m","/","d","o","c","s","/","d","o","w","n","l","o","a","d","-","t","r","a","n","s","a","c","t","i","o","n","s">>,
           <<"h","t","t","p","s",":","/","/","d","o","c","s",".","f","a","t","z","e","b","r","a",".","c","o","m","/","d","o","c","s","/","s","e","t","t","l","e","m","e","n","t","-","s","u","m","m","a","r","y","-","r","e","p","o","r","t","-","1">> >>,
     outputFile |-> "fatzebra-docs.pdf"]

\* the CrawlerOptions literal of main()
MainOptions ==
    [baseUrl |->
        <<"h","t","t","p","s",":","/","/","d","o","c","s",".","f","a","t","z","e","b","r","a",".","c","o","m","/","d","o","c","s","/">>,
     outputFile |-> "fatzebra_docs.pdf",
     maxPages |-> [value |-> 100]]

\* the pages of the site that carry a choice of same-site anchors
MainPages == {UrlRoot, UrlP, UrlQ}
MainOrder == <<UrlRoot, UrlP, UrlQ>>

\* the anchor every page of the site carries after its own (a footer link);
\* <<>> of length 0 is "no footer"
Footers == {<<>>, <<UrlExternal>>, <<UrlSub>>, <<UrlPdfUpper>>, <<UrlPdfQuery>>,
            <<UrlQueryPdf>>, <<HrefEmpty>>, <<HrefBad>>}

\* the baseUrl values a caller supplies
BaseUrls == {UrlRoot, UrlUpperHost, UrlPdf}

\* the link graphs over the main pages: each page links to any of them
Graphs == [MainPages -> SUBSET MainPages]

\* three link graphs: root and p linking to each other; the cycle
\* root -> p -> q -> root; every page linking to every page (itself included)
TwoPage  == [u \in MainPages |->
                IF u = UrlRoot THEN {UrlP} ELSE IF u = UrlP THEN {UrlRoot} ELSE {}]
Cycle    == [u \in MainPages |->
                IF u = UrlRoot THEN {UrlP} ELSE IF u = UrlP THEN {UrlQ} ELSE {UrlRoot}]
Complete == [u \in MainPages |-> MainPages]

\* the sites main() runs on: the page at its baseUrl carries no anchor, or
\* one to the first URL of config.urls
MainSites ==
    [links : {TwoPage}, footer : {<<>>, <<config.urls[1]>>},
     baseUrl : {MainOptions.baseUrl}]

\* the sites and seeds of the model: every link graph crawled from the root,
\* every footer anchor with every baseUrl on the three graphs above, and the
\* sites of main()
Sites ==
    [links : Graphs, footer : {<<>>}, baseUrl : {UrlRoot}]
    \cup [links : {TwoPage, Cycle, Complete}, footer : Footers, baseUrl : BaseUrls]
    \cup MainSites

(***************************************************************************)
(* Option values: a number, undefined, or Infinity.                        *)
(***************************************************************************)
Undefined == [undefined |-> TRUE]
JsInfinity == [infinite |-> TRUE]
Num(n)    == [value |-> n]

\* JavaScript's  v || d : d when v is falsy (undefined or 0)
OrDefault(v, d) == IF v = Undefined \/ v = Num(0) THEN d ELSE v

\* n < m for a number n and a number or Infinity m
LessThan(n, m) == IF m = JsInfinity THEN TRUE ELSE n < m.value

VARIABLES
    input,          \* the CrawlerOptions passed to the constructor
    site,           \* the web site: same-site anchors of each main page
    footer,         \* the web site: the footer anchor of every page
    visitedUrls,    \* this.visitedUrls
    toVisit,        \* this.toVisit, a Set in insertion order
    pageContents,   \* this.pageContents
    domain,         \* this.domain
    options,        \* this.options
    pc,             \* where main() stands
    browser,        \* per phase: the state of the handle of puppeteer.launch
    closes,         \* per phase: the number of browser.close() calls
    thrown,         \* the exception in flight, "none" when there is none
    gotoLog,        \* the page.goto calls in order: the URL, and whether
                    \* goto, content and title all resolved
    errorLog,       \* the console.error calls, in order
    failures,       \* the number of engine failures so far
    pdf,            \* the file at options.outputFile, NoFile until written
    exitCode        \* the exit status of the process, Undefined while it runs

vars == <<input, site, footer, visitedUrls, toVisit, pageContents, domain,
          options, pc, browser, closes, thrown, gotoLog, errorLog, failures,
          pdf, exitCode>>

Phases == {"crawl", "pdf"}

(***************************************************************************)
(* The site: what the browser shows for a URL.                             *)
(***************************************************************************)
\* the members of a set of main pages, in document order
InOrder(S) == SelectSeq(MainOrder, LAMBDA u : u \in S)

\* the document a URL names: its serialisation without the fragment
Document(url) == UrlToString([ParseUrl(url) EXCEPT !.hash = <<>>])

\* page.evaluate(() => anchors.map(a => a.href)) on the page loaded from url
Anchors(url) ==
    LET d == Document(url)
    IN  IF d \in MainPages THEN InOrder(site[d]) \o footer
        ELSE IF d = UrlPdf THEN <<UrlRoot>> \o footer
        ELSE footer

\* page.content() and page.title() of the page loaded from url
Content(url) == [doc |-> Document(url), anchors |-> Anchors(url)]
Title(url)   == ParseUrl(url).pathname

(***************************************************************************)
(* WebsiteToPDF.                                                           *)
(***************************************************************************)
invalidExtensions ==
    << <<".","j","p","g">>, <<".","j","p","e","g">>, <<".","p","n","g">>,
       <<".","g","i","f">>, <<".","p","d","f">>, <<".","z","i","p">> >>

\* isValidUrl without the hostname comparison
isValidUrlAnyHost(url) ==
    LET parsedUrl == ParseUrl(url)
    IN  IF parsedUrl = Invalid THEN FALSE
        ELSE ~ \E i \in 1..Len(invalidExtensions) :
                  endsWith(toLowerCase(url), invalidExtensions[i])

\* isValidUrl comparing the extensions without toLowerCase
isValidUrlCaseSensitive(url) ==
    LET parsedUrl == ParseUrl(url)
    IN  IF parsedUrl = Invalid THEN FALSE
        ELSE /\ parsedUrl.hostname = domain
             /\ ~ \E i \in 1..Len(invalidExtensions) :
                     endsWith(url, invalidExtensions[i])

\* isValidUrl(url): false when new URL(url) throws
isValidUrl(url) ==
    \E str \in {url} :
      \E parsedUrl \in {ParseUrl(str)}, lower \in {toLowerCase(str)} :
        IF parsedUrl = Invalid THEN FALSE
        ELSE /\ parsedUrl.hostname = domain
             /\ ~ \E i \in 1..Len(invalidExtensions) :
                     endsWith(lower, invalidExtensions[i])

\* Set.prototype.add on a Set kept in insertion order
SetAdd(s, x) ==
    CHOOSE added \in {IF v \in Range(t) THEN t ELSE Append(t, v) :
                         t \in {s}, v \in {x}} : TRUE

RECURSIVE LinksOf(_, _, _)
\* the for loop of getLinks over hrefs, from the Set `links`
LinksOf(hrefs, url, links) ==
    IF hrefs = <<>> THEN links
    ELSE LET r == ResolveUrl(Head(hrefs), url)
         IN  IF r = Invalid THEN LinksOf(Tail(hrefs), url, links)
             ELSE LinksOf(Tail(hrefs), url,
                          IF isValidUrl(UrlToString(r))
                          THEN SetAdd(links, UrlToString(r)) ELSE links)

\* getLinks(page, url) when page.evaluate returns hrefs
getLinks(hrefs, url) == LinksOf(hrefs, url, <<>>)

RECURSIVE LinkErrors(_, _)
\* the console.error calls of getLinks' inner catch
LinkErrors(hrefs, url) ==
    IF hrefs = <<>> THEN <<>>
    ELSE (IF ResolveUrl(Head(hrefs), url) = Invalid
          THEN << [msg |-> "Error processing URL", url |-> Head(hrefs)] >>
          ELSE <<>>) \o LinkErrors(Tail(hrefs), url)

\* AddUnvisited stopping after the first link
AddUnvisitedFirstOnly(frontier, newLinks, visited) ==
    IF newLinks = <<>> THEN frontier
    ELSE IF Head(newLinks) \notin visited
         THEN SetAdd(frontier, Head(newLinks)) ELSE frontier

RECURSIVE AddUnvisitedFront(_, _, _)
\* AddUnvisited putting the new links at the front of the Set's order
AddUnvisitedFront(frontier, newLinks, visited) ==
    IF newLinks = <<>> THEN frontier
    ELSE LET rest == AddUnvisitedFront(frontier, Tail(newLinks), visited)
         IN  IF Head(newLinks) \notin visited /\ Head(newLinks) \notin Range(rest)
             THEN <<Head(newLinks)>> \o rest ELSE rest

RECURSIVE AddUnvisitedAll(_, _, _)
\* AddUnvisited without the test  !this.visitedUrls.has(link)
AddUnvisitedAll(frontier, newLinks, visited) ==
    IF newLinks = <<>> THEN frontier
    ELSE AddUnvisitedAll(SetAdd(frontier, Head(newLinks)), Tail(newLinks),
                         visited)

RECURSIVE AddUnvisited(_, _, _)
\* the for loop of crawl over newLinks
AddUnvisited(frontier, newLinks, visited) ==
    IF newLinks = <<>> THEN frontier
    ELSE AddUnvisited(IF Head(newLinks) \notin visited
                      THEN SetAdd(frontier, Head(newLinks)) ELSE frontier,
                      Tail(newLinks), visited)

\* the file system before page.pdf writes options.outputFile
NoFile == [written |-> FALSE]

\* the CrawlerOptions a caller passes for baseUrl: main() passes its literal
CrawlerOptions(baseUrl) ==
    IF baseUrl = MainOptions.baseUrl THEN {MainOptions}
    ELSE [baseUrl : {baseUrl},
          outputFile : {"out.pdf"},
          maxPages : {Undefined} \cup {Num(n) : n \in 0..MaxPagesOpt}]

\* the constructor
Init ==
    /\ \E s \in Sites :
          /\ site = s.links
          /\ footer = s.footer
          /\ input \in CrawlerOptions(s.baseUrl)
    /\ visitedUrls = {}
    /\ toVisit = <<input.baseUrl>>
    /\ pageContents = <<>>
    /\ domain = ParseUrl(input.baseUrl).hostname
    /\ options = [baseUrl |-> input.baseUrl,
                  outputFile |-> input.outputFile,
                  maxPages |-> OrDefault(input.maxPages, JsInfinity)]
    /\ pc = "crawl_launch"
    /\ browser = [ph \in Phases |-> "none"]
    /\ closes = [ph \in Phases |-> 0]
    /\ thrown = "none"
    /\ gotoLog = <<>>
    /\ errorLog = <<>>
    /\ failures = 0
    /\ pdf = NoFile
    /\ exitCode = Undefined

\* an engine operation may fail while the failure budget lasts
MayFail == failures < MaxFailures

siteVars == <<input, site, footer>>
crawlVars == <<visitedUrls, toVisit, pageContents, domain, options>>

(***************************************************************************)
(* crawl()                                                                 *)
(***************************************************************************)
\* puppeteer.launch() resolves
CrawlLaunch ==
    /\ pc = "crawl_launch"
    /\ pc' = "crawl_newPage"
    /\ browser' = [browser EXCEPT !["crawl"] = "open"]
    /\ UNCHANGED <<siteVars, crawlVars, closes, thrown, gotoLog, errorLog,
                   failures, pdf, exitCode>>

\* puppeteer.launch() rejects: crawl() throws before its try
CrawlLaunchFail ==
    /\ pc = "crawl_launch"
    /\ MayFail
    /\ failures' = failures + 1
    /\ thrown' = "launch"
    /\ pc' = "main_catch"
    /\ UNCHANGED <<siteVars, crawlVars, browser, closes, gotoLog, errorLog,
                   pdf, exitCode>>

\* browser.newPage() resolves
CrawlNewPage ==
    /\ pc = "crawl_newPage"
    /\ pc' = "crawl_loop"
    /\ UNCHANGED <<siteVars, crawlVars, browser, closes, thrown, gotoLog,
                   errorLog, failures, pdf, exitCode>>

\* browser.newPage() rejects: control passes to the finally block
CrawlNewPageFail ==
    /\ pc = "crawl_newPage"
    /\ MayFail
    /\ failures' = failures + 1
    /\ thrown' = "newPage"
    /\ pc' = "crawl_finally"
    /\ UNCHANGED <<siteVars, crawlVars, browser, closes, gotoLog, errorLog,
                   pdf, exitCode>>

\* LoopCondition comparing with <= instead of <
LoopConditionOffByOne ==
    /\ Len(toVisit) > 0
    /\ LessThan(Cardinality(visitedUrls) - 1, options.maxPages)

\* the condition of the while loop
LoopCondition ==
    /\ Len(toVisit) > 0
    /\ LessThan(Cardinality(visitedUrls), options.maxPages)

\* currentUrl taking the element added last
currentUrlNewest == toVisit[Len(toVisit)]

\* Array.from(this.toVisit)[0]
currentUrl == Head(toVisit)

\* CrawlSkip without this.toVisit.delete(currentUrl)
CrawlSkipKeepsUrl ==
    /\ pc = "crawl_loop"
    /\ LoopCondition
    /\ currentUrl \in visitedUrls
    /\ UNCHANGED vars

\* an iteration whose currentUrl is already visited: it is only deleted
CrawlSkip ==
    /\ pc = "crawl_loop"
    /\ LoopCondition
    /\ currentUrl \in visitedUrls
    /\ toVisit' = Tail(toVisit)
    /\ UNCHANGED <<siteVars, visitedUrls, pageContents, domain, options, pc,
                   browser, closes, thrown, gotoLog, errorLog, failures, pdf,
                   exitCode>>

\* Record without visitedUrls.add(currentUrl)
RecordForgetVisited(newLinks) ==
    /\ pageContents' = Append(pageContents,
                              [url |-> currentUrl,
                               html |-> Content(currentUrl),
                               title |-> Title(currentUrl)])
    /\ toVisit' = AddUnvisited(Tail(toVisit), newLinks, visitedUrls)
    /\ visitedUrls' = visitedUrls

\* the body of the inner try with the links getLinks returned
Record(newLinks) ==
    /\ pageContents' = Append(pageContents,
                              [url |-> currentUrl,
                               html |-> Content(currentUrl),
                               title |-> Title(currentUrl)])
    /\ toVisit' = AddUnvisited(Tail(toVisit), newLinks, visitedUrls)
    /\ visitedUrls' = visitedUrls \cup {currentUrl}

\* CrawlPage without the test  !this.visitedUrls.has(currentUrl)
CrawlPageRevisit ==
    /\ pc = "crawl_loop"
    /\ LoopCondition
    /\ gotoLog' = Append(gotoLog, [url |-> currentUrl, ok |-> TRUE])
    /\ Record(getLinks(Anchors(currentUrl), currentUrl))
    /\ errorLog' = errorLog \o LinkErrors(Anchors(currentUrl), currentUrl)
    /\ UNCHANGED <<siteVars, domain, options, pc, browser, closes, thrown,
                   failures, pdf, exitCode>>

\* an iteration in which every engine call succeeds
CrawlPage ==
    /\ pc = "crawl_loop"
    /\ LoopCondition
    /\ currentUrl \notin visitedUrls
    /\ gotoLog' = Append(gotoLog, [url |-> currentUrl, ok |-> TRUE])
    /\ \E hrefs \in {Anchors(currentUrl)} :
          /\ \E newLinks \in {getLinks(hrefs, currentUrl)} : Record(newLinks)
          /\ errorLog' = errorLog \o LinkErrors(hrefs, currentUrl)
    /\ UNCHANGED <<siteVars, domain, options, pc, browser, closes, thrown,
                   failures, pdf, exitCode>>

\* CrawlEvaluateFail with the rejection reaching the inner catch of crawl
\* before the push: the page is dropped
CrawlEvaluateFailDropsPage ==
    /\ pc = "crawl_loop"
    /\ LoopCondition
    /\ currentUrl \notin visitedUrls
    /\ MayFail
    /\ failures' = failures + 1
    /\ gotoLog' = Append(gotoLog, [url |-> currentUrl, ok |-> TRUE])
    /\ toVisit' = Tail(toVisit)
    /\ errorLog' = Append(errorLog, [msg |-> "Error getting links from",
                                     url |-> currentUrl])
    /\ UNCHANGED <<siteVars, visitedUrls, pageContents, domain, options, pc,
                   browser, closes, thrown, pdf, exitCode>>

\* an iteration in which page.evaluate rejects inside getLinks: getLinks
\* logs and returns the empty Set
CrawlEvaluateFail ==
    /\ pc = "crawl_loop"
    /\ LoopCondition
    /\ currentUrl \notin visitedUrls
    /\ MayFail
    /\ failures' = failures + 1
    /\ gotoLog' = Append(gotoLog, [url |-> currentUrl, ok |-> TRUE])
    /\ Record(<<>>)
    /\ errorLog' = Append(errorLog, [msg |-> "Error getting links from",
                                     url |-> currentUrl])
    /\ UNCHANGED <<siteVars, domain, options, pc, browser, closes, thrown,
                   pdf, exitCode>>

\* CrawlPageFail without the inner try/catch: the rejection leaves the loop
CrawlPageFailAborts ==
    /\ pc = "crawl_loop"
    /\ LoopCondition
    /\ currentUrl \notin visitedUrls
    /\ MayFail
    /\ failures' = failures + 1
    /\ gotoLog' = Append(gotoLog, [url |-> currentUrl, ok |-> FALSE])
    /\ toVisit' = Tail(toVisit)
    /\ thrown' = "goto"
    /\ pc' = "crawl_finally"
    /\ UNCHANGED <<siteVars, visitedUrls, pageContents, domain, options,
                   browser, closes, errorLog, pdf, exitCode>>

\* CrawlPageFail with visitedUrls.add(currentUrl) run in spite of the failure
CrawlPageFailMarksVisited ==
    /\ pc = "crawl_loop"
    /\ LoopCondition
    /\ currentUrl \notin visitedUrls
    /\ MayFail
    /\ failures' = failures + 1
    /\ gotoLog' = Append(gotoLog, [url |-> currentUrl, ok |-> FALSE])
    /\ toVisit' = Tail(toVisit)
    /\ visitedUrls' = visitedUrls \cup {currentUrl}
    /\ errorLog' = Append(errorLog, [msg |-> "Error processing",
                                     url |-> currentUrl])
    /\ UNCHANGED <<siteVars, pageContents, domain, options, pc, browser,
                   closes, thrown, pdf, exitCode>>

\* an iteration in which page.goto, page.content or page.title rejects: the
\* inner catch logs and the loop goes on
CrawlPageFail ==
    /\ pc = "crawl_loop"
    /\ LoopCondition
    /\ currentUrl \notin visitedUrls
    /\ MayFail
    /\ failures' = failures + 1
    /\ gotoLog' = Append(gotoLog, [url |-> currentUrl, ok |-> FALSE])
    /\ toVisit' = Tail(toVisit)
    /\ errorLog' = Append(errorLog, [msg |-> "Error processing",
                                     url |-> currentUrl])
    /\ UNCHANGED <<siteVars, visitedUrls, pageContents, domain, options, pc,
                   browser, closes, thrown, pdf, exitCode>>

\* the while loop ends
CrawlLoopExit ==
    /\ pc = "crawl_loop"
    /\ ~ LoopCondition
    /\ pc' = "crawl_finally"
    /\ UNCHANGED <<siteVars, crawlVars, browser, closes, thrown, gotoLog,
                   errorLog, failures, pdf, exitCode>>

\* finally { await browser.close() }, then crawl() returns or rethrows
CrawlFinally ==
    /\ pc = "crawl_finally"
    /\ browser' = [browser EXCEPT !["crawl"] = "closed"]
    /\ closes' = [closes EXCEPT !["crawl"] = @ + 1]
    /\ pc' = IF thrown = "none" THEN "pdf_launch" ELSE "main_catch"
    /\ UNCHANGED <<siteVars, crawlVars, thrown, gotoLog, errorLog, failures,
                   pdf, exitCode>>

(***************************************************************************)
(* generatePDF()                                                           *)
(***************************************************************************)
RECURSIVE SectionsReversed(_)
\* Sections emitting the records last to first
SectionsReversed(contents) ==
    IF contents = <<>> THEN <<>>
    ELSE SectionsReversed(Tail(contents))
         \o << [div |-> "page-content",
                h1 |-> Head(contents).title,
                pageUrl |-> Head(contents).url,
                body |-> Head(contents).html],
               [div |-> "page-break"] >>

RECURSIVE Sections(_)
\* this.pageContents.map(content => ...): per record, the page-content div
\* and the page-break div after it
Sections(contents) ==
    IF contents = <<>> THEN <<>>
    ELSE << [div |-> "page-content",
             h1 |-> Head(contents).title,
             pageUrl |-> Head(contents).url,
             body |-> Head(contents).html],
            [div |-> "page-break"] >> \o Sections(Tail(contents))

\* the body of combinedHtml
combinedHtml == Sections(pageContents)

\* puppeteer.launch(...) resolves
PdfLaunch ==
    /\ pc = "pdf_launch"
    /\ pc' = "pdf_newPage"
    /\ browser' = [browser EXCEPT !["pdf"] = "open"]
    /\ UNCHANGED <<siteVars, crawlVars, closes, thrown, gotoLog, errorLog,
                   failures, pdf, exitCode>>

\* puppeteer.launch(...) rejects: generatePDF() throws before its try
PdfLaunchFail ==
    /\ pc = "pdf_launch"
    /\ MayFail
    /\ failures' = failures + 1
    /\ thrown' = "launch"
    /\ pc' = "main_catch"
    /\ UNCHANGED <<siteVars, crawlVars, browser, closes, gotoLog, errorLog,
                   pdf, exitCode>>

\* browser.newPage() and the page settings resolve
PdfNewPage ==
    /\ pc = "pdf_newPage"
    /\ pc' = "pdf_setContent"
    /\ UNCHANGED <<siteVars, crawlVars, browser, closes, thrown, gotoLog,
                   errorLog, failures, pdf, exitCode>>

\* browser.newPage() rejects
PdfNewPageFail ==
    /\ pc = "pdf_newPage"
    /\ MayFail
    /\ failures' = failures + 1
    /\ thrown' = "newPage"
    /\ pc' = "pdf_finally"
    /\ UNCHANGED <<siteVars, crawlVars, browser, closes, gotoLog, errorLog,
                   pdf, exitCode>>

\* page.setContent(combinedHtml, ...) resolves, then the 2 s delay
PdfSetContent ==
    /\ pc = "pdf_setContent"
    /\ pc' = "pdf_export"
    /\ UNCHANGED <<siteVars, crawlVars, browser, closes, thrown, gotoLog,
                   errorLog, failures, pdf, exitCode>>

\* PdfSetContentFail without the finally block
PdfSetContentFailNoClose ==
    /\ pc = "pdf_setContent"
    /\ MayFail
    /\ failures' = failures + 1
    /\ thrown' = "setContent"
    /\ pc' = "main_catch"
    /\ UNCHANGED <<siteVars, crawlVars, browser, closes, gotoLog, errorLog,
                   pdf, exitCode>>

\* page.setContent rejects (the document fails to load)
PdfSetContentFail ==
    /\ pc = "pdf_setContent"
    /\ MayFail
    /\ failures' = failures + 1
    /\ thrown' = "setContent"
    /\ pc' = "pdf_finally"
    /\ UNCHANGED <<siteVars, crawlVars, browser, closes, gotoLog, errorLog,
                   pdf, exitCode>>

\* page.pdf({path: outputFile, ...}) resolves: the file is written
PdfExport ==
    /\ pc = "pdf_export"
    /\ pdf' = [written |-> TRUE, path |-> options.outputFile,
               html |-> combinedHtml]
    /\ pc' = "pdf_finally"
    /\ UNCHANGED <<siteVars, crawlVars, browser, closes, thrown, gotoLog,
                   errorLog, failures, exitCode>>

\* page.pdf rejects
PdfExportFail ==
    /\ pc = "pdf_export"
    /\ MayFail
    /\ failures' = failures + 1
    /\ thrown' = "pdf"
    /\ pc' = "pdf_finally"
    /\ UNCHANGED <<siteVars, crawlVars, browser, closes, gotoLog, errorLog,
                   pdf, exitCode>>

\* finally { await browser.close() }, then generatePDF() returns or rethrows
PdfFinally ==
    /\ pc = "pdf_finally"
    /\ browser' = [browser EXCEPT !["pdf"] = "closed"]
    /\ closes' = [closes EXCEPT !["pdf"] = @ + 1]
    /\ pc' = IF thrown = "none" THEN "main_return" ELSE "main_catch"
    /\ UNCHANGED <<siteVars, crawlVars, thrown, gotoLog, errorLog, failures,
                   pdf, exitCode>>

(***************************************************************************)
(* main()                                                                  *)
(***************************************************************************)
\* the status Node exits with once main()'s promise has settled: main sets
\* no exit code and its promise never rejects
ExitStatus == Num(0)

\* catch (error) { console.error('Error:', error) }, then the process ends
MainCatch ==
    /\ pc = "main_catch"
    /\ errorLog' = Append(errorLog, [msg |-> "Error:", url |-> thrown])
    /\ exitCode' = ExitStatus
    /\ pc' = "exited"
    /\ UNCHANGED <<siteVars, crawlVars, browser, closes, thrown, gotoLog,
                   failures, pdf>>

\* the try block completes, then the process ends
MainReturn ==
    /\ pc = "main_return"
    /\ exitCode' = ExitStatus
    /\ pc' = "exited"
    /\ UNCHANGED <<siteVars, crawlVars, browser, closes, thrown, gotoLog,
                   errorLog, failures, pdf>>

Next ==
    \/ CrawlLaunch
    \/ CrawlLaunchFail
    \/ CrawlNewPage
    \/ CrawlNewPageFail
    \/ CrawlSkip
    \/ CrawlPage
    \/ CrawlEvaluateFail
    \/ CrawlPageFail
    \/ CrawlLoopExit
    \/ CrawlFinally
    \/ PdfLaunch
    \/ PdfLaunchFail
    \/ PdfNewPage
    \/ PdfNewPageFail
    \/ PdfSetContent
    \/ PdfSetContentFail
    \/ PdfExport
    \/ PdfExportFail
    \/ PdfFinally
    \/ MainCatch
    \/ MainReturn

Spec == Init /\ [][Next]_vars

\* the constructor, on the sites built on the three named link graphs (with
\* every footer anchor and every baseUrl)
FairInit == Init /\ site \in {TwoPage, Cycle, Complete}

\* every awaited engine call settles (resolves or rejects) and the single
\* thread of control then runs on: a step that stays possible is taken
FairSpec == FairInit /\ [][Next]_vars /\ WF_vars(Next)

(***************************************************************************)
(* Properties.                                                             *)
(***************************************************************************)
\* the URLs of the PageRecords
RecordUrls == {pageContents[i].url : i \in 1..Len(pageContents)}

\* crawl() has returned or thrown
CrawlEnded == pc \notin {"crawl_launch", "crawl_newPage", "crawl_loop",
                          "crawl_finally"}

\* the links getLinks returns for the page at url
LinksFrom(url) == Range(getLinks(Anchors(url), url))

\* url ends in a filtered extension, compared case-insensitively
HasInvalidExtension(url) ==
    LET lower == toLowerCase(url)
    IN  \E i \in 1..Len(invalidExtensions) : endsWith(lower, invalidExtensions[i])

\* C1: in every state, for every maxPages the caller supplies (any
\* non-negative integer), the number of PageRecords is at most maxPages.
C1_PagesWithinSuppliedMaxPages ==
    input.maxPages # Undefined => Len(pageContents) <= input.maxPages.value

\* C2 (as claimed): no URL is passed to page.goto twice in one crawl run,
\* whatever fetches fail.
C2_NoUrlFetchedTwice ==
    \A i, j \in 1..Len(gotoLog) : gotoLog[i].url = gotoLog[j].url => i = j

\* C2 (amended): a URL is passed to page.goto again only if every earlier
\* fetch of it failed; a URL fetched successfully is never fetched again.
C2_NoRefetchAfterSuccess ==
    \A i, j \in 1..Len(gotoLog) :
        (i < j /\ gotoLog[i].url = gotoLog[j].url) => ~ gotoLog[i].ok

\* C2 witness: the run is over, and a page fetched successfully was linked
\* again from a page fetched after it.
C2_Witness ==
    /\ pc = "exited"
    /\ \E i, j \in 1..Len(gotoLog) :
          /\ i < j /\ gotoLog[i].ok /\ gotoLog[j].ok
          /\ gotoLog[i].url \in LinksFrom(gotoLog[j].url)

\* C3: no two PageRecords have the same url, in every state, for every link
\* graph and every pattern of fetch failures.
C3_NoDuplicateRecords ==
    \A i, j \in 1..Len(pageContents) :
        pageContents[i].url = pageContents[j].url => i = j

\* C3 witness: the run is over after a failed fetch, with a recorded page
\* that links to itself and another that links back to an earlier one.
C3_Witness ==
    /\ pc = "exited"
    /\ \E k \in 1..Len(gotoLog) : ~ gotoLog[k].ok
    /\ \E i, j \in 1..Len(pageContents) :
          /\ i < j
          /\ pageContents[i].url \in LinksFrom(pageContents[i].url)
          /\ pageContents[i].url \in LinksFrom(pageContents[j].url)

\* C4 (as claimed): no PageRecord URL ends in .jpg .jpeg .png .gif .pdf .zip
\* (case-insensitive), for every seed URL and every link graph.
C4_NoRecordWithInvalidExtension ==
    \A i \in 1..Len(pageContents) : ~ HasInvalidExtension(pageContents[i].url)

\* C4 (amended): no PageRecord URL other than the seed baseUrl ends in a
\* filtered extension (case-insensitive).
C4_NoLinkedRecordWithInvalidExtension ==
    \A i \in 1..Len(pageContents) :
        pageContents[i].url # input.baseUrl
            => ~ HasInvalidExtension(pageContents[i].url)

\* C4 witness: the run is over, a recorded page carried a link ending in
\* .PDF, and pages reached through links were recorded.
C4_Witness ==
    /\ pc = "exited"
    /\ Len(pageContents) >= 2
    /\ \E i \in 1..Len(pageContents) :
          \E k \in 1..Len(pageContents[i].html.anchors) :
              /\ pageContents[i].html.anchors[k] # <<>>
              /\ HasInvalidExtension(pageContents[i].html.anchors[k])

\* C5: every PageRecord's URL has the hostname of the seed baseUrl.
C5_RecordsOnSeedHost ==
    \A i \in 1..Len(pageContents) :
        ParseUrl(pageContents[i].url).hostname = ParseUrl(input.baseUrl).hostname

\* C5 witness: the run is over, a recorded page linked to another host, and
\* pages reached through links were recorded.
C5_Witness ==
    /\ pc = "exited"
    /\ Len(pageContents) >= 2
    /\ \E i \in 1..Len(pageContents) :
          \E k \in 1..Len(pageContents[i].html.anchors) :
              LET r == ParseUrl(pageContents[i].html.anchors[k])
              IN  IF r = Invalid THEN FALSE
                  ELSE r.hostname # ParseUrl(input.baseUrl).hostname

\* the strings isValidUrl is asked about: the hrefs of the recorded pages,
\* as found and as resolved against the page's URL
Candidates ==
    UNION { UNION { {pageContents[i].html.anchors[k]}
                    \cup (LET r == ResolveUrl(pageContents[i].html.anchors[k],
                                              pageContents[i].url)
                          IN  IF r = Invalid THEN {} ELSE {UrlToString(r)})
                    : k \in 1..Len(pageContents[i].html.anchors) }
            : i \in 1..Len(pageContents) }

\* the path component of url ends in a filtered extension
PathHasInvalidExtension(url) ==
    LET lower == toLowerCase(ParseUrl(url).pathname)
    IN  \E i \in 1..Len(invalidExtensions) : endsWith(lower, invalidExtensions[i])

\* C6: isValidUrl accepts a candidate iff it parses, its hostname equals the
\* seed's and its path component does not end in a filtered extension, also
\* when a query string or fragment follows the path.
C6_ValidIffSeedHostAndPathExtension ==
    \A c \in Candidates :
        isValidUrl(c) <=>
            IF ParseUrl(c) = Invalid THEN FALSE
            ELSE /\ ParseUrl(c).hostname = ParseUrl(input.baseUrl).hostname
                 /\ ~ PathHasInvalidExtension(c)

\* a step in which a fetch (page.goto, content or title) fails
FetchFails ==
    /\ Len(gotoLog') = Len(gotoLog) + 1
    /\ ~ gotoLog'[Len(gotoLog')].ok

C8_FatalFailureExitsNonZero ==
    pc = "exited" =>
        IF thrown = "none" THEN exitCode = Num(0)
        ELSE /\ exitCode # Num(0)
             /\ \E k \in 1..Len(errorLog) : errorLog[k].msg = "Error:"

\* the phase has returned or thrown
PhaseEnded(ph) ==
    IF ph = "crawl" THEN CrawlEnded
    ELSE pc \in {"main_return", "main_catch", "exited"}

\* C9: in crawl() and in generatePDF() the handle of puppeteer.launch is
\* closed exactly once before the phase returns or throws, on every path; no
\* handle is open after the phase has ended.
C9_BrowserClosedOncePerPhase ==
    \A ph \in Phases :
        /\ closes[ph] <= 1
        /\ PhaseEnded(ph) =>
              /\ browser[ph] # "open"
              /\ closes[ph] = IF browser[ph] = "closed" THEN 1 ELSE 0

\* C9 witness: the run is over after page.setContent or page.pdf threw, and
\* both phases closed their browser.
C9_Witness ==
    /\ pc = "exited"
    /\ thrown \in {"setContent", "pdf"}
    /\ \A ph \in Phases : browser[ph] = "closed" /\ closes[ph] = 1

RECURSIVE Reach(_)
\* the URLs reachable from the URLs of S through the links getLinks keeps
Reach(S) ==
    LET T == S \cup UNION {LinksFrom(u) : u \in S}
    IN  IF T = S THEN S ELSE Reach(T)

\* no crawl iteration failed: neither a fetch nor the evaluation in getLinks
NoCrawlFailure ==
    \A k \in 1..Len(errorLog) :
        errorLog[k].msg \notin {"Error processing", "Error getting links from"}

\* C10: with no page cap and every fetch succeeding, the PageRecord URLs
\* crawl() returns are exactly the URLs reachable from the seed through
\* links that pass the link filter; no URL of another host is among them.
C10_RecordsAreReachableSet ==
    (CrawlEnded /\ thrown = "none" /\ input.maxPages = Undefined
        /\ NoCrawlFailure)
    => /\ RecordUrls = Reach({input.baseUrl})
       /\ \A u \in RecordUrls : ParseUrl(u).hostname = domain

\* C10 witness: the run is over; root links to p and to another host, p
\* links back to root, and the PageRecords are root and p.
C10_Witness ==
    /\ pc = "exited"
    /\ thrown = "none"
    /\ input.maxPages = Undefined
    /\ site = TwoPage
    /\ footer = <<UrlExternal>>
    /\ RecordUrls = {UrlRoot, UrlP}


\* crawl() has returned after entering its loop
CrawlReturned == CrawlEnded /\ gotoLog # <<>>

\* the page cap k the caller supplied; 0 when none was supplied
CapSupplied == IF input.maxPages = Undefined THEN 0 ELSE input.maxPages.value

\* the caller supplied the page cap k >= 1 and at least k pages are
\* reachable from the seed through links that pass the link filter
CapWithinSite ==
    /\ CapSupplied >= 1
    /\ Cardinality(Reach({input.baseUrl})) >= CapSupplied

EvaluateFails ==
    /\ Len(errorLog') = Len(errorLog) + 1
    /\ errorLog'[Len(errorLog')].msg = "Error getting links from"

\* C12 (as claimed): when the DOM evaluation in getLinks fails for a URL,
\* the error is logged, the crawl continues, and no PageRecord for that URL
\* is in pageContents.
C12_EvaluateFailureDropsPage ==
    \A k \in 1..Len(errorLog) :
        errorLog[k].msg = "Error getting links from"
            => errorLog[k].url \notin RecordUrls

\* C12 (amended): when the DOM evaluation in getLinks fails for a URL, the
\* error is logged and the crawl continues (nothing is thrown, the loop goes
\* on), the PageRecord of that URL is in pageContents and the URL is
\* visited; only its outbound links are lost.
C12_EvaluateFailureKeepsPage ==
    [][EvaluateFails =>
          /\ errorLog'[Len(errorLog')].url = Head(toVisit)
          /\ Len(pageContents') = Len(pageContents) + 1
          /\ pageContents'[Len(pageContents')].url = Head(toVisit)
          /\ visitedUrls' = visitedUrls \cup {Head(toVisit)}
          /\ toVisit' = Tail(toVisit)
          /\ pc' = "crawl_loop"
          /\ thrown' = "none"
          /\ browser'["crawl"] = "open"]_vars

\* C12 witness: the run is over; the evaluation failed on a page that has
\* links, its PageRecord is there, and a page fetched after it was recorded.
C12_Witness ==
    /\ pc = "exited"
    /\ \E k \in 1..Len(errorLog) :
          /\ errorLog[k].msg = "Error getting links from"
          /\ LinksFrom(errorLog[k].url) # {}
          /\ \E i, j \in 1..Len(pageContents) :
                i < j /\ pageContents[i].url = errorLog[k].url


\* the page-break markers of a combined document
PageBreaks(html) == {k \in 1..Len(html) : html[k].div = "page-break"}

\* C13: the combined document that generatePDF exports has exactly one
\* section per PageRecord, in the order of pageContents, each carrying that
\* record's title, URL and html and followed by exactly one page-break
\* marker: n PageRecords give n page-break markers.
C13_OneSectionPerRecordInOrder ==
    pdf.written
    => /\ Len(pdf.html) = 2 * Len(pageContents)
       /\ Cardinality(PageBreaks(pdf.html)) = Len(pageContents)
       /\ \A i \in 1..Len(pageContents) :
             /\ pdf.html[2 * i - 1].div = "page-content"
             /\ pdf.html[2 * i - 1].h1 = pageContents[i].title
             /\ pdf.html[2 * i - 1].pageUrl = pageContents[i].url
             /\ pdf.html[2 * i - 1].body = pageContents[i].html
             /\ pdf.html[2 * i].div = "page-break"

\* C13 witness: a PDF was written from two PageRecords with different
\* titles, with two page-break markers.
C13_Witness ==
    /\ pdf.written
    /\ Len(pageContents) = 2
    /\ pageContents[1].title # pageContents[2].title
    /\ Cardinality(PageBreaks(pdf.html)) = 2


\* C14: crawl() terminates. Once the loop is entered, whatever fetches fail
\* and whichever failed URLs are found again, crawl() eventually returns
\* with the frontier empty or the page cap reached, and its engine closed.
C14_CrawlTerminates ==
    (pc = "crawl_loop")
        ~> /\ CrawlEnded
           /\ ~ LoopCondition
           /\ thrown = "none"
           /\ browser["crawl"] = "closed"

\* C14 witness: crawl() has returned with its engine closed, after a fetch
\* of some URL failed and the URL, found again, was fetched once more.
C14_Witness ==
    /\ CrawlEnded
    /\ ~ LoopCondition
    /\ browser["crawl"] = "closed"
    /\ \E i, j \in 1..Len(gotoLog) :
          /\ i < j
          /\ gotoLog[i].url = gotoLog[j].url
          /\ ~ gotoLog[i].ok


RECURSIVE Level(_, _, _)
\* the link distance of url from the URLs of S, counted from d; -1 when url
\* is not reachable
Level(url, S, d) ==
    IF url \in S THEN d
    ELSE LET T == S \cup UNION {LinksFrom(u) : u \in S}
         IN  IF T = S THEN -1 ELSE Level(url, T, d + 1)

\* the link distance of url from the seed
Dist(url) == Level(url, {input.baseUrl}, 0)

\* the PageRecords are in non-decreasing link distance from the seed
RecordsByDistance ==
    \A i \in 1..(Len(pageContents) - 1) :
        Dist(pageContents[i].url) <= Dist(pageContents[i + 1].url)

C16_VisitedHaveRecords == visitedUrls \subseteq RecordUrls

\* C16 witness: two URLs are visited and recorded, and a URL whose fetch
\* failed is neither.
C16_Witness ==
    /\ pc = "crawl_loop"
    /\ Cardinality(visitedUrls) >= 2
    /\ visitedUrls \subseteq RecordUrls
    /\ \E k \in 1..Len(gotoLog) :
          /\ ~ gotoLog[k].ok
          /\ gotoLog[k].url \notin visitedUrls
          /\ gotoLog[k].url \notin RecordUrls


\* the run of main() is over and no engine call failed in it
MainRanClean == input = MainOptions /\ pc = "exited" /\ failures = 0

\* C17: the program run by `npm run start` is driven by config.ts: every URL
\* listed in config.urls is crawled and converted, and the single output
\* PDF is written to the path config.outputFile.
C17_DrivenByConfig ==
    MainRanClean
    => /\ pdf.written
       /\ pdf.path = config.outputFile
       /\ \A k \in 1..Len(config.urls) : config.urls[k] \in RecordUrls


\* the URLs that are in the frontier and visited
VisitedInFrontier == Range(toVisit) \cap visitedUrls

\* C18 (as claimed): in every state at the top of the crawl loop, toVisit
\* and visitedUrls are disjoint, for every link graph including pages that
\* link to themselves.
C18_FrontierDisjointFromVisited ==
    pc = "crawl_loop" => VisitedInFrontier = {}

\* C18 (amended): in every state at the top of the crawl loop, a URL that is
\* both in toVisit and in visitedUrls is the URL of a page that links to
\* itself; toVisit and visitedUrls are disjoint when no visited page does.
C18_OnlySelfLinksVisitedInFrontier ==
    pc = "crawl_loop" => \A u \in VisitedInFrontier : u \in LinksFrom(u)

\* C18 witness: at the top of the loop a visited page that links to itself
\* is in the frontier again, next to a page not yet visited.
C18_Witness ==
    /\ pc = "crawl_loop"
    /\ \E u \in VisitedInFrontier : u \in LinksFrom(u)
    /\ \E v \in Range(toVisit) : v \notin visitedUrls


\* s is an initial part of t
IsPrefix(s, t) == Len(s) <= Len(t) /\ SubSeq(t, 1, Len(s)) = s

====
